---- MODULE Spec2Model ----
(***************************************************************************)
(* A model of the Caesar cipher of encryption.py (class CaesarCipher) and  *)
(* of the calls a client makes on it.  Symbols are Unicode code points, a  *)
(* text is a sequence of them.  The client holds one text, input, and     *)
(* passes it, or the output of its last encrypt call, to the cipher.  The  *)
(* loops of encrypt, decrypt, brute_force_decrypt and                      *)
(* analyze_encrypted_text advance one iteration per step.                  *)
(***************************************************************************)
EXTENDS Integers, Sequences, FiniteSets, TLC

VARIABLES
    input,      \* the text the client holds and passes to the cipher
    charset,    \* CaesarCipher.charset
    pc,         \* where the cipher is: "idle" or inside one of its loops
    op,         \* the operation called last
    text,       \* its text argument (text, encrypted_text)
    shift,      \* its shift argument; brute_force_decrypt's loop variable
    value,      \* validate_shift's argument, a Python value of any type
    i,          \* number of symbols the running loop has consumed
    out,        \* encrypted_chars / decrypted_chars
    result,     \* the text returned by encrypt / decrypt
    returned,   \* whether the call returned a value
    raised,     \* the exception the call raised, or NoError
    results,    \* brute_force_decrypt's results dict
    analysis,   \* analyze_encrypted_text's analysis dict
    valid,      \* validate_shift's return value
    src,        \* the encrypt call whose output is the current text argument
    suggestions, \* generate_shift_suggestions' list
    id_text,    \* _create_identifier's text argument
    identifier, \* _create_identifier's local identifier
    id_pc,      \* the statement _create_identifier is at
    disk,       \* the files: name |-> content
    fm_pc,      \* the statement load_code is at, or "idle"
    fm_op,      \* the FileManager method called last
    code,       \* save_code's code argument
    code_type,  \* save_code's code_type argument
    code_src,   \* the encrypt call whose output code is, if it is one
    filename,   \* the name save_code returned or load_code was given
    lines,      \* _remove_file_headers_footers' lines
    content,    \* load_code's content, which it returns
    fm_raised,  \* the exception save_code or load_code raised, or NoError
    generated_code, \* TextToCodeApp.generated_code
    encrypted_code, \* TextToCodeApp.encrypted_code
    prompt,     \* the input() call the session waits at
    held,       \* the local the running handler keeps across its prompts
    entered,    \* what the user answered last: a line, end of input, Ctrl-C
    message,    \* what the session printed last about the outcome of a step
    cipher_op,  \* the cipher method the last step called, or "none"
    cipher_raised, \* the exception that call raised, or NoError
    exited,     \* whether the process has ended
    exit_status \* the status it ended with

cipherVars ==
    <<input, charset, pc, op, text, shift, value, i, out, result, returned,
      raised, results, analysis, valid, src, suggestions>>

identVars == <<id_text, identifier, id_pc>>

fileLocals ==
    <<fm_pc, fm_op, code, code_type, code_src, filename, lines, content,
      fm_raised>>

fileVars == <<disk, fileLocals>>

sessionVars ==
    <<generated_code, encrypted_code, prompt, held, entered, message,
      cipher_op, cipher_raised, exited, exit_status>>

vars == <<cipherVars, identVars, fileVars, sessionVars>>

----------------------------------------------------------------------------
\* Bounds of the model

\* longest text a client passes
MaxLen == 4

\* symbols a client builds texts from: 'a' (first of the charset), TAB (last
\* of the charset), CR (in string.printable, not in the charset) and U+00E9
\* (in neither)
Symbols == {97, 9, 13, 233}

\* shifts a client passes to encrypt and decrypt
ShiftInputs == {-1, 0, 1, 13, 25, 26, 98}

\* Python values: a type, a number num/den (int, bool, float) or a string s
PyInt(n) == [ty |-> "int", num |-> n, den |-> 1, s |-> ""]
PyBool(b) == [ty |-> "bool", num |-> IF b THEN 1 ELSE 0, den |-> 1, s |-> ""]
PyFloat(n, d) == [ty |-> "float", num |-> n, den |-> d, s |-> ""]
PyStr(str) == [ty |-> "str", num |-> 0, den |-> 1, s |-> str]
PyNone == [ty |-> "NoneType", num |-> 0, den |-> 1, s |-> ""]

\* values a client passes to validate_shift: integers, True and False, 13.0
\* and 2.5, "x" and "13", None
PyValues ==
    {PyInt(n) : n \in ShiftInputs} \cup {PyBool(TRUE), PyBool(FALSE)}
        \cup {PyFloat(13, 1), PyFloat(5, 2), PyStr("x"), PyStr("13"), PyNone}

----------------------------------------------------------------------------
\* Python's string constants, as sequences of code points

Range(s) == {s[k] : k \in DOMAIN s}

ascii_lowercase == [k \in 1..26 |-> 96 + k]
ascii_uppercase == [k \in 1..26 |-> 64 + k]
ascii_letters == ascii_lowercase \o ascii_uppercase
digits == [k \in 1..10 |-> 47 + k]
punctuation ==
    [k \in 1..15 |-> 32 + k] \o [k \in 1..7 |-> 57 + k]
        \o [k \in 1..6 |-> 90 + k] \o [k \in 1..4 |-> 122 + k]
\* ' \t\n\r\x0b\x0c'
whitespace == <<32, 9, 10, 13, 11, 12>>
printable == digits \o ascii_letters \o punctuation \o whitespace

\* CaesarCipher.__init__: the charset
InitialCharset == ascii_letters \o digits \o punctuation \o <<32, 10, 9>>

----------------------------------------------------------------------------
\* Exceptions

NoError == "none"
ShiftError == "ValueError: Shift must be between 1 and 25"
EmptyTextError == "ValueError: Text cannot be empty"
EmptyEncryptedError == "ValueError: Encrypted text cannot be empty"

----------------------------------------------------------------------------
\* Program constants

\* the least and the greatest shift encrypt and decrypt accept
MinShift == 1
MaxShift == 25

\* brute_force_decrypt: range(1, 26)
BruteStart == 1
BruteStop == 26

----------------------------------------------------------------------------
\* Values a call leaves untouched

NoSrc == [text |-> <<>>, shift |-> 0]
NoDict == <<>>
NoValue == PyNone

----------------------------------------------------------------------------
\* encrypt and decrypt

\* the range check with its upper end one too far
ShiftInRangeOffByOne(s) == MinShift <= s /\ s <= MaxShift + 1

\* 1 <= shift <= 25
ShiftInRange(s) == MinShift <= s /\ s <= MaxShift

\* the emptiness check left out
IsEmptyNever(t) == FALSE

\* not text
IsEmpty(t) == Len(t) = 0

\* char in self.charset
InCharset(c) == c \in Range(charset)

\* self.charset.index(char): the 0-based position of the first occurrence
IndexOf(c) ==
    (CHOOSE k \in 1..Len(charset) :
        charset[k] = c /\ \A j \in 1..(k - 1) : charset[j] # c) - 1

\* the wrap-around taken one position early
EncryptIndexShortWrap(old_index, s) == (old_index + s) % (Len(charset) - 1)

\* (old_index + shift) % len(self.charset)
EncryptIndex(old_index, s) == (old_index + s) % Len(charset)

\* decrypt wrapping around the 26 letters instead of the whole charset
DecryptIndexLetters(old_index, s) == (old_index - s) % 26

\* decrypt shifting forward, as encrypt does
DecryptIndexForward(old_index, s) == (old_index + s) % Len(charset)

\* (old_index - shift) % len(self.charset): Python's % takes the sign of the
\* divisor, so the result is in 0..len-1 also for a negative left operand
DecryptIndex(old_index, s) == (old_index - s) % Len(charset)

\* encrypt shifting the code point of a symbol outside the charset
EncryptCharShiftsAll(c, s) ==
    IF InCharset(c) THEN charset[EncryptIndex(IndexOf(c), s) + 1] ELSE c + s

\* the body of encrypt's loop: the symbol appended for char
EncryptChar(c, s) ==
    IF InCharset(c) THEN charset[EncryptIndex(IndexOf(c), s) + 1] ELSE c

\* the body of decrypt's loop
DecryptChar(c, s) ==
    IF InCharset(c) THEN charset[DecryptIndex(IndexOf(c), s) + 1] ELSE c

\* the checks encrypt makes before its loop, in the code's order
EncryptCheck(t, s) ==
    IF ~ShiftInRange(s) THEN ShiftError
    ELSE IF IsEmpty(t) THEN EmptyTextError
    ELSE NoError

\* the checks decrypt makes before its loop
DecryptCheck(t, s) ==
    IF ~ShiftInRange(s) THEN ShiftError
    ELSE IF IsEmpty(t) THEN EmptyEncryptedError
    ELSE NoError

\* encrypt as one call: the exception it raises or the text it returns
encrypt(t, s) ==
    LET e == EncryptCheck(t, s)
    IN  [raised |-> e,
         chars |-> IF e = NoError
                   THEN [k \in 1..Len(t) |-> EncryptChar(t[k], s)]
                   ELSE <<>>]

\* decrypt as one call: the exception it raises or the text it returns
decrypt(t, s) ==
    LET e == DecryptCheck(t, s)
    IN  [raised |-> e,
         chars |-> IF e = NoError
                   THEN [k \in 1..Len(t) |-> DecryptChar(t[k], s)]
                   ELSE <<>>]

----------------------------------------------------------------------------
\* The client

Texts == UNION {[1..n -> Symbols] : n \in 0..MaxLen}

\* a call starts: the arguments are bound and every local starts afresh
Call(o, t, s, source) ==
    /\ pc = "idle"
    /\ op' = o
    /\ text' = t
    /\ shift' = s
    /\ src' = source
    /\ i' = 0
    /\ out' = <<>>
    /\ result' = <<>>
    /\ results' = NoDict
    /\ UNCHANGED <<input, charset>>

\* what a call of another operation leaves of analyze_encrypted_text and
\* validate_shift: nothing
NoAnalysis == analysis' = NoDict /\ valid' = FALSE /\ value' = NoValue

\* what a call of another operation leaves of generate_shift_suggestions
NoSuggestions == suggestions' = <<>>

\* the last call was an encrypt that returned: its output can be passed on
CanChain == pc = "idle" /\ op = "encrypt" /\ returned

----------------------------------------------------------------------------
\* encrypt(text, shift)

EncryptCall(t, s) ==
    /\ Call("encrypt", t, s, NoSrc)
    /\ NoAnalysis
    /\ NoSuggestions
    /\ returned' = FALSE
    /\ raised' = EncryptCheck(t, s)
    /\ pc' = IF EncryptCheck(t, s) = NoError THEN "encrypt" ELSE "idle"

EncryptStep ==
    /\ pc = "encrypt"
    /\ i < Len(text)
    /\ out' = Append(out, EncryptChar(text[i + 1], shift))
    /\ i' = i + 1
    /\ UNCHANGED <<input, charset, pc, op, text, shift, value, result,
                   returned, raised, results, analysis, valid, src,
                   suggestions>>

\* encrypt leaving the charset rotated by the shift it applied
EncryptReturnRotates ==
    /\ pc = "encrypt"
    /\ i = Len(text)
    /\ result' = out
    /\ returned' = TRUE
    /\ pc' = "idle"
    /\ charset' = [k \in 1..Len(charset) |->
                       charset[((k - 1 + shift) % Len(charset)) + 1]]
    /\ UNCHANGED <<input, op, text, shift, value, i, out, raised, results,
                   analysis, valid, src, suggestions>>

EncryptReturn ==
    /\ pc = "encrypt"
    /\ i = Len(text)
    /\ result' = out
    /\ returned' = TRUE
    /\ pc' = "idle"
    /\ UNCHANGED <<input, charset, op, text, shift, value, i, out, raised,
                   results, analysis, valid, src,
                   suggestions>>

----------------------------------------------------------------------------
\* decrypt(encrypted_text, shift)

DecryptCall(t, s, source) ==
    /\ Call("decrypt", t, s, source)
    /\ NoAnalysis
    /\ NoSuggestions
    /\ returned' = FALSE
    /\ raised' = DecryptCheck(t, s)
    /\ pc' = IF DecryptCheck(t, s) = NoError THEN "decrypt" ELSE "idle"

DecryptStep ==
    /\ pc = "decrypt"
    /\ i < Len(text)
    /\ out' = Append(out, DecryptChar(text[i + 1], shift))
    /\ i' = i + 1
    /\ UNCHANGED <<input, charset, pc, op, text, shift, value, result,
                   returned, raised, results, analysis, valid, src,
                   suggestions>>

DecryptReturn ==
    /\ pc = "decrypt"
    /\ i = Len(text)
    /\ result' = out
    /\ returned' = TRUE
    /\ pc' = "idle"
    /\ UNCHANGED <<input, charset, op, text, shift, value, i, out, raised,
                   results, analysis, valid, src,
                   suggestions>>

----------------------------------------------------------------------------
\* brute_force_decrypt(encrypted_text)

\* try: decrypted = self.decrypt(...) except Exception as e: f"Error: {e}"
BruteEntry(t, s) ==
    LET d == decrypt(t, s)
    IN  IF d.raised = NoError
        THEN [kind |-> "text", chars |-> d.chars, error |-> NoError]
        ELSE [kind |-> "error", chars |-> <<>>, error |-> d.raised]

BruteCall(t, source) ==
    /\ Call("brute_force_decrypt", t, BruteStart, source)
    /\ NoAnalysis
    /\ NoSuggestions
    /\ returned' = FALSE
    /\ raised' = IF IsEmpty(t) THEN EmptyEncryptedError ELSE NoError
    /\ pc' = IF IsEmpty(t) THEN "idle" ELSE "brute"

\* range(1, 25): the last shift left out
BruteInRangeShort(s) == s < BruteStop - 1

\* shift in range(1, 26), for the loop variable counting up from 1
BruteInRange(s) == s < BruteStop

BruteStep ==
    /\ pc = "brute"
    /\ BruteInRange(shift)
    /\ results' = (shift :> BruteEntry(text, shift)) @@ results
    /\ shift' = shift + 1
    /\ i' = i + 1
    /\ UNCHANGED <<input, charset, pc, op, text, value, out, result, returned,
                   raised, analysis, valid, src,
                   suggestions>>

BruteReturn ==
    /\ pc = "brute"
    /\ ~BruteInRange(shift)
    /\ returned' = TRUE
    /\ pc' = "idle"
    /\ UNCHANGED <<input, charset, op, text, shift, value, i, out, result,
                   raised, results, analysis, valid, src,
                   suggestions>>

----------------------------------------------------------------------------
\* analyze_encrypted_text(encrypted_text)

EmptyAnalysis == [error |-> "Empty text provided"]

\* char_frequency is a dict, which keeps its keys in insertion order: a
\* sequence of items [char, count]
DictHas(d, c) == \E k \in 1..Len(d) : d[k].char = c

\* d.get(c, 0)
DictGet(d, c) ==
    IF DictHas(d, c) THEN d[CHOOSE k \in 1..Len(d) : d[k].char = c].count
    ELSE 0

\* d[c] = n: an existing key keeps its place, a new key goes last
DictSet(d, c, n) ==
    IF DictHas(d, c)
    THEN [k \in 1..Len(d) |-> IF d[k].char = c THEN [char |-> c, count |-> n]
                              ELSE d[k]]
    ELSE Append(d, [char |-> c, count |-> n])

\* the cipher's charset taken for the printable symbols
IsPrintableCharset(c) == c \in Range(charset)

\* char in string.printable
IsPrintable(c) == c \in Range(printable)

\* a later item replacing the best so far also on a tie
KeyGreaterOrEqual(a, b) == a.count >= b.count

\* max's comparison of two keys: a later item replaces the best so far only
\* when its key is greater
KeyGreater(a, b) == a.count > b.count

RECURSIVE MaxScan(_, _, _)
MaxScan(items, k, best) ==
    IF k > Len(items) THEN best
    ELSE MaxScan(items, k + 1,
                 IF KeyGreater(items[k], best) THEN items[k] ELSE best)

\* max(items, key=lambda x: x[1]): the first item with the greatest count
MaxItem(items) == MaxScan(items, 2, items[1])

\* round(num / den, 0) to the nearest integer, a tie to the even one
RoundHalfEven(num, den) ==
    LET q == num \div den
        r == num % den
    IN  IF 2 * r < den THEN q
        ELSE IF 2 * r > den THEN q + 1
        ELSE IF q % 2 = 0 THEN q ELSE q + 1

\* round((count / len) * 100, 2), in hundredths of a percent
Percentage(count, n) == RoundHalfEven(count * 10000, n)

\* analyze_encrypted_text rejecting an empty text the way decrypt does
AnalyzeCallRaises(t) ==
    /\ Call("analyze_encrypted_text", t, 0, NoSrc)
    /\ valid' = FALSE
    /\ value' = NoValue
    /\ NoSuggestions
    /\ raised' = IF IsEmpty(t) THEN EmptyEncryptedError ELSE NoError
    /\ analysis' = NoDict
    /\ returned' = FALSE
    /\ pc' = "idle"

AnalyzeCall(t) ==
    /\ Call("analyze_encrypted_text", t, 0, NoSrc)
    /\ valid' = FALSE
    /\ value' = NoValue
    /\ NoSuggestions
    /\ raised' = NoError
    /\ IF IsEmpty(t)
       THEN /\ analysis' = EmptyAnalysis
            /\ returned' = TRUE
            /\ pc' = "idle"
       ELSE /\ analysis' = [length |-> Len(t),
                            unique_chars |-> Cardinality(Range(t)),
                            char_frequency |-> <<>>,
                            most_common_char |-> <<>>,
                            printable_chars |-> 0,
                            non_printable_chars |-> 0]
            /\ returned' = FALSE
            /\ pc' = "analyze"

AnalyzeStep ==
    /\ pc = "analyze"
    /\ i < Len(text)
    /\ LET char == text[i + 1]
           freq == analysis.char_frequency
       IN  analysis' =
               [analysis EXCEPT
                   !.char_frequency =
                       DictSet(freq, char, DictGet(freq, char) + 1),
                   !.printable_chars =
                       IF IsPrintable(char) THEN @ + 1 ELSE @,
                   !.non_printable_chars =
                       IF IsPrintable(char) THEN @ ELSE @ + 1]
    /\ i' = i + 1
    /\ UNCHANGED <<input, charset, pc, op, text, shift, value, out, result,
                   returned, raised, results, valid, src,
                   suggestions>>

AnalyzeReturn ==
    /\ pc = "analyze"
    /\ i = Len(text)
    /\ analysis' =
           IF Len(analysis.char_frequency) > 0
           THEN LET most_common == MaxItem(analysis.char_frequency)
                IN  [analysis EXCEPT
                        !.most_common_char =
                            [char |-> most_common.char,
                             count |-> most_common.count,
                             percentage |->
                                 Percentage(most_common.count, Len(text))]]
           ELSE analysis
    /\ returned' = TRUE
    /\ pc' = "idle"
    /\ UNCHANGED <<input, charset, op, text, shift, value, i, out, result,
                   raised, results, valid, src,
                   suggestions>>

----------------------------------------------------------------------------
\* validate_shift(shift)

\* isinstance(shift, int): bool is a subclass of int
IsInstanceInt(v) == v.ty \in {"int", "bool"}

\* 1 <= shift raises TypeError for a str and for None
CompareRaises(v) == v.ty \in {"str", "NoneType"}

\* 1 <= shift <= 25 for a number num/den
ValueInRange(v) == MinShift * v.den <= v.num /\ v.num <= MaxShift * v.den

\* the try block: "and" evaluates the comparison only for an instance of int;
\* the bare except turns any exception into False
validate_shift(v) ==
    IF ~IsInstanceInt(v) THEN FALSE
    ELSE IF CompareRaises(v) THEN FALSE
    ELSE ValueInRange(v)

ValidateShift(v) ==
    /\ Call("validate_shift", <<>>, 0, NoSrc)
    /\ analysis' = NoDict
    /\ NoSuggestions
    /\ value' = v
    /\ valid' = validate_shift(v)
    /\ returned' = TRUE
    /\ raised' = NoError
    /\ pc' = "idle"

----------------------------------------------------------------------------
\* generate_shift_suggestions(text_sample)

\* return [1, 3, 5, 13]
DefaultSuggestions == <<1, 3, 5, 13>>

\* suggestions = [1, 3, 5, 7, 13, 17, 21, 25]
StandardSuggestions == <<1, 3, 5, 7, 13, 17, 21, 25>>

\* suggestions[:5]
SuggestionLimit == 5

\* common_patterns: 'def ', 'class ', 'print(', 'import ', 'if __name__'
common_patterns ==
    <<[pattern |-> <<100, 101, 102, 32>>, suggested_shift |-> 3],
      [pattern |-> <<99, 108, 97, 115, 115, 32>>, suggested_shift |-> 5],
      [pattern |-> <<112, 114, 105, 110, 116, 40>>, suggested_shift |-> 7],
      [pattern |-> <<105, 109, 112, 111, 114, 116, 32>>,
       suggested_shift |-> 11],
      [pattern |-> <<105, 102, 32, 95, 95, 110, 97, 109, 101, 95, 95>>,
       suggested_shift |-> 13]>>

\* str.lower() of one symbol, for ASCII and Latin-1
LowerChar(c) ==
    IF c \in 65..90 \/ (c \in 192..222 /\ c # 215) THEN c + 32 ELSE c

\* the sample compared as it is written
LowerCaseSensitive(t) == t

\* str.lower()
Lower(t) == [k \in 1..Len(t) |-> LowerChar(t[k])]

\* p in t, for strings
Contains(t, p) ==
    \E k \in 0..(Len(t) - Len(p)) : SubSeq(t, k + 1, k + Len(p)) = p

\* sorted(list(S)) for a set of integers
RECURSIVE Sorted(_)
Sorted(S) ==
    IF S = {} THEN <<>>
    ELSE LET least == CHOOSE x \in S : \A y \in S : x <= y
         IN  <<least>> \o Sorted(S \ {least})

\* l[:n]
Prefix(l, n) == SubSeq(l, 1, IF Len(l) < n THEN Len(l) ELSE n)

SuggestCall(t) ==
    /\ Call("generate_shift_suggestions", t, 0, NoSrc)
    /\ NoAnalysis
    /\ raised' = NoError
    /\ IF IsEmpty(t)
       THEN /\ suggestions' = DefaultSuggestions
            /\ returned' = TRUE
            /\ pc' = "idle"
       ELSE /\ suggestions' = <<>>
            /\ returned' = FALSE
            /\ pc' = "suggest"

\* one pass of the loop over common_patterns
SuggestStep ==
    /\ pc = "suggest"
    /\ i < Len(common_patterns)
    /\ suggestions' =
           IF Contains(Lower(text), Lower(common_patterns[i + 1].pattern))
           THEN Append(suggestions, common_patterns[i + 1].suggested_shift)
           ELSE suggestions
    /\ i' = i + 1
    /\ UNCHANGED <<input, charset, pc, op, text, shift, value, out, result,
                   returned, raised, results, analysis, valid, src>>

SuggestReturn ==
    /\ pc = "suggest"
    /\ i = Len(common_patterns)
    /\ suggestions' =
           Prefix(Sorted(Range(IF suggestions = <<>> THEN StandardSuggestions
                               ELSE suggestions)),
                  SuggestionLimit)
    /\ returned' = TRUE
    /\ pc' = "idle"
    /\ UNCHANGED <<input, charset, op, text, shift, value, i, out, result,
                   raised, results, analysis, valid, src>>

\* samples a client passes: pieces of Python text in lower, upper and mixed
\* case, patterns cut short, and all five patterns in one piece
SampleFragments ==
    {<<100, 101, 102, 32>>,                              \* "def "
     <<68, 69, 70, 32>>,                                 \* "DEF "
     <<67, 108, 97, 115, 115, 32>>,                      \* "Class "
     <<80, 82, 73, 78, 84, 40>>,                         \* "PRINT("
     <<73, 109, 112, 111, 114, 116, 32>>,                \* "Import "
     <<105, 102, 32, 95, 95, 78, 65, 77, 69, 95, 95>>,   \* "if __NAME__"
     <<100, 101, 102>>,                                  \* "def"
     <<112, 114, 105, 110, 116>>,                        \* "print"
     <<40>>,                                             \* "("
     <<32>>,                                             \* " "
     <<120, 233>>,                                       \* "x" U+00E9
     <<100, 101, 102, 32, 99, 108, 97, 115, 115, 32, 112, 114, 105, 110, 116,
       40, 105, 109, 112, 111, 114, 116, 32, 105, 102, 32, 95, 95, 110, 97,
       109, 101, 95, 95>>}           \* "def class print(import if __name__"

\* most pieces a sample is made of
MaxFragments == 2

RECURSIVE Concatenations(_)
Concatenations(n) ==
    IF n = 0 THEN {<<>>}
    ELSE LET shorter == Concatenations(n - 1)
         IN  shorter \cup {t \o f : t \in shorter, f \in SampleFragments}

Samples == Concatenations(MaxFragments)

----------------------------------------------------------------------------
\* TextToCodeConverter._create_identifier of text_to_code.py, one statement
\* per step

\* longest text passed to _create_identifier
MaxIdLen == 4

\* symbols of those texts: '_', '!', '1', 'B', 'f', 'o', 'r'
IdSymbols == {95, 33, 49, 66, 102, 111, 114}

IdTexts == UNION {[1..n -> IdSymbols] : n \in 0..MaxIdLen}

Underscore == 95

\* "func_"
FuncPrefix == <<102, 117, 110, 99, 95>>

\* "generated_item"
GeneratedItem ==
    <<103, 101, 110, 101, 114, 97, 116, 101, 100, 95, 105, 116, 101, 109>>

MinIdentifierLength == 3

\* the class [a-zA-Z0-9_] of the regular expressions
IsWordChar(c) == c \in 97..122 \/ c \in 65..90 \/ c \in 48..57 \/ c = Underscore

\* str.isdigit() on a symbol that [a-zA-Z0-9_] admits
isdigit(c) == c \in 48..57

\* re.sub(r'[^a-zA-Z0-9_]', '_', t)
SubNonWord(t) ==
    [k \in 1..Len(t) |-> IF IsWordChar(t[k]) THEN t[k] ELSE Underscore]

\* re.sub(r'_+', '_', t): of each run of underscores the first is kept
CollapseUnderscores(t) ==
    SelectSeq([k \in 1..Len(t) |->
                  IF t[k] = Underscore /\ k > 1 /\ t[k - 1] = Underscore
                  THEN 0 ELSE t[k]],
              LAMBDA c : c # 0)

\* t.strip('_')
StripUnderscores(t) ==
    LET kept == {k \in 1..Len(t) : t[k] # Underscore}
    IN  IF kept = {} THEN <<>>
        ELSE LET first == CHOOSE k \in kept : \A j \in kept : k <= j
                 last == CHOOSE k \in kept : \A j \in kept : k >= j
             IN  SubSeq(t, first, last)

\* the call: identifier = re.sub(r'[^a-zA-Z0-9_]', '_', text.lower())
CreateIdentifierCall(t) ==
    /\ id_pc = "idle"
    /\ id_text' = t
    /\ identifier' = SubNonWord(Lower(t))
    /\ id_pc' = "first"

\* if identifier and identifier[0].isdigit(): prefix "func_"
EnsureFirst ==
    /\ id_pc = "first"
    /\ identifier' = IF identifier # <<>> /\ isdigit(identifier[1])
                      THEN FuncPrefix \o identifier
                      ELSE identifier
    /\ id_pc' = "collapse"
    /\ UNCHANGED id_text

\* identifier = re.sub(r'_+', '_', identifier)
Collapse ==
    /\ id_pc = "collapse"
    /\ identifier' = CollapseUnderscores(identifier)
    /\ id_pc' = "strip"
    /\ UNCHANGED id_text

\* identifier = identifier.strip('_')
Strip ==
    /\ id_pc = "strip"
    /\ identifier' = StripUnderscores(identifier)
    /\ id_pc' = "length"
    /\ UNCHANGED id_text

\* if not identifier or len(identifier) < 3: "generated_item"; return
CreateIdentifierReturn ==
    /\ id_pc = "length"
    /\ identifier' = IF identifier = <<>> \/ Len(identifier) < MinIdentifierLength
                      THEN GeneratedItem
                      ELSE identifier
    /\ id_pc' = "returned"
    /\ UNCHANGED id_text

----------------------------------------------------------------------------
\* FileManager of file_manager.py.  The disk maps the name of each file to
\* its content.  The operating system is one whose line separator is "\n",
\* and the clock reads the same instant throughout.

\* longest text a client passes to encrypt or save_code here
MaxFileLen == 4

\* symbols of those texts: ')', which shift 25 encrypts to "\n"; "\n"; '"';
\* and "\r"
FileSymbols == {41, 10, 34, 13}

FileTexts == UNION {[1..n -> FileSymbols] : n \in 0..MaxFileLen}

Newline == 10

CarriageReturn == 13

\* '"""'
TripleQuote ==
    <<34, 34, 34>>

\* the characters str.strip() and str.split() take for white space
SpaceChars == {9, 10, 11, 12, 13, 28, 29, 30, 31, 32, 133, 160}

\* not t.strip()
IsBlank(t) == \A k \in 1..Len(t) : t[k] \in SpaceChars

\* c * n, for a character c
Repeat(c, n) == [k \in 1..n |-> c]

\* t.split(sep), for a character sep
RECURSIVE split(_, _)
split(t, sep) ==
    LET at == {k \in 1..Len(t) : t[k] = sep}
    IN  IF at = {} THEN <<t>>
        ELSE LET first == CHOOSE k \in at : \A j \in at : k <= j
             IN  <<SubSeq(t, 1, first - 1)>>
                     \o split(SubSeq(t, first + 1, Len(t)), sep)

\* sep.join(parts), for a string sep
RECURSIVE join(_, _)
join(parts, sep) ==
    IF parts = <<>> THEN <<>>
    ELSE IF Len(parts) = 1 THEN parts[1]
    ELSE parts[1] \o sep \o join(Tail(parts), sep)

\* str.upper() on one symbol
UpperChar(c) ==
    IF c \in 97..122 \/ (c \in 224..254 /\ c # 247) THEN c - 32 ELSE c

IsCased(c) == LowerChar(c) # c \/ UpperChar(c) # c

\* str.title()
title(t) ==
    [k \in 1..Len(t) |->
        IF k = 1 \/ ~IsCased(t[k - 1]) THEN UpperChar(t[k]) ELSE LowerChar(t[k])]

\* "generated"
Generated ==
    <<103, 101, 110, 101, 114, 97, 116, 101, 100>>

\* "encrypted"
Encrypted ==
    <<101, 110, 99, 114, 121, 112, 116, 101, 100>>

\* strftime("%Y%m%d_%H%M%S") of the instant the clock reads
FileStamp ==
    <<50, 48, 50, 52, 48, 49, 48, 49, 95, 48, 48, 48, 48, 48, 48>>

\* strftime("%Y-%m-%d %H:%M:%S") of the same instant
TimeStamp ==
    <<50, 48, 50, 52, 45, 48, 49, 45, 48, 49, 32, 48, 48, 58, 48, 48, 58,
    48, 48>>

\* f"{code_type}_code_{timestamp}.py", in the base directory: the type,
\* "_code_", the time and ".py"
FileName(type) ==
    type \o <<95, 99, 111, 100, 101, 95>> \o FileStamp \o <<46, 112, 121>>

\* the string literals of the header
HeaderText ==
    \* "Text to Code Generator - "
    [HeaderTitle |->
         <<84, 101, 120, 116, 32, 116, 111, 32, 67, 111, 100, 101, 32, 71, 101,
         110, 101, 114, 97, 116, 111, 114, 32, 45, 32>>,
     \* " Code"
     HeaderTitleEnd |->
         <<32, 67, 111, 100, 101>>,
     \* "Generated on: "
     GeneratedOn |->
         <<71, 101, 110, 101, 114, 97, 116, 101, 100, 32, 111, 110, 58, 32>>,
     \* "This file was automatically generated by the Text to Code Generator"
     HeaderAbout |->
         <<84, 104, 105, 115, 32, 102, 105, 108, 101, 32, 119, 97, 115, 32, 97,
         117, 116, 111, 109, 97, 116, 105, 99, 97, 108, 108, 121, 32, 103, 101,
         110, 101, 114, 97, 116, 101, 100, 32, 98, 121, 32, 116, 104, 101, 32,
         84, 101, 120, 116, 32, 116, 111, 32, 67, 111, 100, 101, 32, 71, 101,
         110, 101, 114, 97, 116, 111, 114>>,
     \* "with Encryption tool. "
     HeaderAboutEnd |->
         <<119, 105, 116, 104, 32, 69, 110, 99, 114, 121, 112, 116, 105, 111,
         110, 32, 116, 111, 111, 108, 46, 32>>,
     \* "Code Type: "
     HeaderCodeType |->
         <<67, 111, 100, 101, 32, 84, 121, 112, 101, 58, 32>>]

\* the header, which ends in three line ends
generate_file_header(type) ==
    join(<<TripleQuote,
           HeaderText.HeaderTitle \o title(type) \o HeaderText.HeaderTitleEnd,
           HeaderText.GeneratedOn \o TimeStamp,
           Repeat(61, 37),
           <<>>,
           HeaderText.HeaderAbout,
           HeaderText.HeaderAboutEnd,
           <<>>,
           HeaderText.HeaderCodeType \o title(type),
           TripleQuote,
           <<>>,
           <<>>,
           <<>>>>, <<Newline>>)

\* the string literals of the footer
FooterText ==
    \* "End of generated code"
    [FooterTitle |->
         <<69, 110, 100, 32, 111, 102, 32, 103, 101, 110, 101, 114, 97, 116,
         101, 100, 32, 99, 111, 100, 101>>,
     \* "This file was created by Text to Code Generator with Encryption."
     FooterAbout |->
         <<84, 104, 105, 115, 32, 102, 105, 108, 101, 32, 119, 97, 115, 32, 99,
         114, 101, 97, 116, 101, 100, 32, 98, 121, 32, 84, 101, 120, 116, 32,
         116, 111, 32, 67, 111, 100, 101, 32, 71, 101, 110, 101, 114, 97, 116,
         111, 114, 32, 119, 105, 116, 104, 32, 69, 110, 99, 114, 121, 112, 116,
         105, 111, 110, 46>>,
     \* "For more information about this tool, check the main.py file."
     FooterAboutEnd |->
         <<70, 111, 114, 32, 109, 111, 114, 101, 32, 105, 110, 102, 111, 114,
         109, 97, 116, 105, 111, 110, 32, 97, 98, 111, 117, 116, 32, 116, 104,
         105, 115, 32, 116, 111, 111, 108, 44, 32, 99, 104, 101, 99, 107, 32,
         116, 104, 101, 32, 109, 97, 105, 110, 46, 112, 121, 32, 102, 105, 108,
         101, 46>>]

\* the footer, which starts with three line ends and ends with one
generate_file_footer ==
    join(<<<<>>,
           <<>>,
           <<>>,
           TripleQuote,
           FooterText.FooterTitle,
           Repeat(61, 21),
           <<>>,
           FooterText.FooterAbout,
           FooterText.FooterAboutEnd,
           TripleQuote,
           <<>>>>, <<Newline>>)

\* what open(filepath, 'w') holds after the three writes
Written(c, type) == generate_file_header(type) \o c \o generate_file_footer

\* file.read() of a file opened in text mode: "\r\n" and "\r" are read as
\* "\n"
ReadText(t) ==
    SelectSeq([k \in 1..Len(t) |->
                  IF t[k] # CarriageReturn THEN t[k]
                  ELSE IF k < Len(t) /\ t[k + 1] = Newline THEN -1
                  ELSE Newline],
              LAMBDA c : c # -1)

\* the indices of the lines that hold """
QuoteLines(ls) == {k \in 1..Len(ls) : Contains(ls[k], TripleQuote)}

\* the first loop of _remove_file_headers_footers and the removal after it
RemoveHeader(ls) ==
    LET q == QuoteLines(ls)
    IN  IF Cardinality(q) < 2 THEN ls
        ELSE LET start_remove == CHOOSE k \in q : \A j \in q : k <= j
                 rest == q \ {start_remove}
                 end_remove == CHOOSE k \in rest : \A j \in rest : k <= j
             IN  SubSeq(ls, 1, start_remove - 1)
                     \o SubSeq(ls, end_remove + 1, Len(ls))

\* the second loop, from the last line backwards
RemoveFooter(ls) ==
    LET q == QuoteLines(ls)
    IN  IF Cardinality(q) < 2 THEN ls
        ELSE LET start_remove == CHOOSE k \in q : \A j \in q : k >= j
                 rest == q \ {start_remove}
                 first == CHOOSE k \in rest : \A j \in rest : k >= j
             IN  SubSeq(ls, 1, first - 1)
                     \o SubSeq(ls, start_remove + 1, Len(ls))

\* the two loops that pop blank lines off the beginning and the end
DropBlankEnds(ls) ==
    LET kept == {k \in 1..Len(ls) : ~IsBlank(ls[k])}
    IN  IF kept = {} THEN <<>>
        ELSE LET first == CHOOSE k \in kept : \A j \in kept : k <= j
                 last == CHOOSE k \in kept : \A j \in kept : k >= j
             IN  SubSeq(ls, first, last)

\* _remove_file_headers_footers as one call
remove_file_headers_footers(c) ==
    join(DropBlankEnds(RemoveFooter(RemoveHeader(split(c, Newline)))),
         <<Newline>>)

\* the exception of load_code for a file that does not exist
FileNotFound == "FileNotFoundError"

\* save_code as one call on the files d: the exception it raises, or the
\* name it returns and the files it leaves
save_code(d, c, type) ==
    IF IsBlank(c)
    THEN [raised |-> "ValueError: Cannot save empty code",
          filename |-> <<>>,
          disk |-> d]
    ELSE [raised |-> NoError,
          filename |-> FileName(type),
          disk |-> [f \in DOMAIN d \cup {FileName(type)} |->
                       IF f = FileName(type) THEN Written(c, type) ELSE d[f]]]

\* save_code(code, code_type), called on the output of the encrypt call
\* source, if on one
SaveCode(c, type, source) ==
    LET saved == save_code(disk, c, type)
    IN  /\ fm_pc = "idle"
        /\ fm_op' = "save_code"
        /\ code' = c
        /\ code_type' = type
        /\ code_src' = source
        /\ fm_raised' = saved.raised
        /\ disk' = saved.disk
        /\ filename' = IF saved.raised = NoError THEN saved.filename ELSE filename
        /\ UNCHANGED <<fm_pc, lines, content>>

\* load_code(filename), up to content = file.read() and the split into lines
LoadCode(f) ==
    /\ fm_pc = "idle"
    /\ fm_op' = "load_code"
    /\ filename' = f
    /\ IF f = <<>>
       THEN /\ fm_raised' = "ValueError: Filename cannot be empty"
            /\ UNCHANGED <<fm_pc, lines, content>>
       ELSE IF f \notin DOMAIN disk
       THEN /\ fm_raised' = FileNotFound
            /\ UNCHANGED <<fm_pc, lines, content>>
       ELSE /\ fm_raised' = NoError
            /\ content' = ReadText(disk[f])
            /\ lines' = split(ReadText(disk[f]), Newline)
            /\ fm_pc' = "header"
    /\ UNCHANGED <<disk, code, code_type, code_src>>

\* the header goes
LoadRemoveHeader ==
    /\ fm_pc = "header"
    /\ lines' = RemoveHeader(lines)
    /\ fm_pc' = "footer"
    /\ UNCHANGED <<disk, fm_op, code, code_type, code_src, filename, content,
                   fm_raised>>

\* the footer goes
LoadRemoveFooter ==
    /\ fm_pc = "footer"
    /\ lines' = RemoveFooter(lines)
    /\ fm_pc' = "blank"
    /\ UNCHANGED <<disk, fm_op, code, code_type, code_src, filename, content,
                   fm_raised>>

\* the blank lines at both ends go
LoadDropBlankEnds ==
    /\ fm_pc = "blank"
    /\ lines' = DropBlankEnds(lines)
    /\ fm_pc' = "join"
    /\ UNCHANGED <<disk, fm_op, code, code_type, code_src, filename, content,
                   fm_raised>>

\* return '\n'.join(lines)
LoadReturn ==
    /\ fm_pc = "join"
    /\ content' = join(lines, <<Newline>>)
    /\ fm_pc' = "idle"
    /\ UNCHANGED <<disk, fm_op, code, code_type, code_src, filename, lines,
                   fm_raised>>

\* load_code returned
Loaded == fm_pc = "idle" /\ fm_op = "load_code" /\ fm_raised = NoError

\* load_code as one call on the files d
load_code(d, f) ==
    IF f = <<>>
    THEN [raised |-> "ValueError: Filename cannot be empty", content |-> <<>>]
    ELSE IF f \notin DOMAIN d THEN [raised |-> FileNotFound, content |-> <<>>]
    ELSE [raised |-> NoError,
          content |-> remove_file_headers_footers(ReadText(d[f]))]

----------------------------------------------------------------------------
\* TextToCodeConverter of text_to_code.py: convert_text and its templates,
\* each as a function of the text

\* the string literals of the templates
Lit ==
    \* "# Generated Print Statements"
    [PrintHeading |->
         <<35, 32, 71, 101, 110, 101, 114, 97, 116, 101, 100, 32, 80, 114, 105,
         110, 116, 32, 83, 116, 97, 116, 101, 109, 101, 110, 116, 115>>,
     \* "# Created on: "
     CreatedOn |->
         <<35, 32, 67, 114, 101, 97, 116, 101, 100, 32, 111, 110, 58, 32>>,
     \* 'print("Statement '
     PrintStatement |->
         <<112, 114, 105, 110, 116, 40, 34, 83, 116, 97, 116, 101, 109, 101,
         110, 116, 32>>,
     \* ": "
     ColonSpace |->
         <<58, 32>>,
     \* '")'
     CloseCall |->
         <<34, 41>>,
     \* "# End of generated print statements"
     PrintFooting |->
         <<35, 32, 69, 110, 100, 32, 111, 102, 32, 103, 101, 110, 101, 114, 97,
         116, 101, 100, 32, 112, 114, 105, 110, 116, 32, 115, 116, 97, 116,
         101, 109, 101, 110, 116, 115>>,
     \* "# Generated Function Definition"
     FunctionHeading |->
         <<35, 32, 71, 101, 110, 101, 114, 97, 116, 101, 100, 32, 70, 117, 110,
         99, 116, 105, 111, 110, 32, 68, 101, 102, 105, 110, 105, 116, 105,
         111, 110>>,
     \* "def "
     Def |->
         <<100, 101, 102, 32>>,
     \* "():"
     DefEnd |->
         <<40, 41, 58>>,
     \* '    """'
     DocQuotes |->
         <<32, 32, 32, 32, 34, 34, 34>>,
     \* "    Function generated from user input:"
     FunctionDoc |->
         <<32, 32, 32, 32, 70, 117, 110, 99, 116, 105, 111, 110, 32, 103, 101,
         110, 101, 114, 97, 116, 101, 100, 32, 102, 114, 111, 109, 32, 117,
         115, 101, 114, 32, 105, 110, 112, 117, 116, 58>>,
     \* '    "'
     DocTextStart |->
         <<32, 32, 32, 32, 34>>,
     \* "..."
     Ellipsis |->
         <<46, 46, 46>>,
     \* '    print("'
     BodyPrint |->
         <<32, 32, 32, 32, 112, 114, 105, 110, 116, 40, 34>>,
     \* "# Example usage:"
     ExampleUsage |->
         <<35, 32, 69, 120, 97, 109, 112, 108, 101, 32, 117, 115, 97, 103, 101,
         58>>,
     \* "if __name__ == '__main__':"
     IfMain |->
         <<105, 102, 32, 95, 95, 110, 97, 109, 101, 95, 95, 32, 61, 61, 32, 39,
         95, 95, 109, 97, 105, 110, 95, 95, 39, 58>>,
     \* "    "
     Indent |->
         <<32, 32, 32, 32>>,
     \* "()"
     CallEnd |->
         <<40, 41>>,
     \* "# Generated Class Definition"
     ClassHeading |->
         <<35, 32, 71, 101, 110, 101, 114, 97, 116, 101, 100, 32, 67, 108, 97,
         115, 115, 32, 68, 101, 102, 105, 110, 105, 116, 105, 111, 110>>,
     \* "class "
     Class |->
         <<99, 108, 97, 115, 115, 32>>,
     \* "    Class generated from user input:"
     ClassDoc |->
         <<32, 32, 32, 32, 67, 108, 97, 115, 115, 32, 103, 101, 110, 101, 114,
         97, 116, 101, 100, 32, 102, 114, 111, 109, 32, 117, 115, 101, 114, 32,
         105, 110, 112, 117, 116, 58>>,
     \* "    def __init__(self):"
     DefInit |->
         <<32, 32, 32, 32, 100, 101, 102, 32, 95, 95, 105, 110, 105, 116, 95,
         95, 40, 115, 101, 108, 102, 41, 58>>,
     \* '        """Initialize the class instance."""'
     InitDoc |->
         <<32, 32, 32, 32, 32, 32, 32, 32, 34, 34, 34, 73, 110, 105, 116, 105,
         97, 108, 105, 122, 101, 32, 116, 104, 101, 32, 99, 108, 97, 115, 115,
         32, 105, 110, 115, 116, 97, 110, 99, 101, 46, 34, 34, 34>>,
     \* '        self.description = "'
     SelfDescription |->
         <<32, 32, 32, 32, 32, 32, 32, 32, 115, 101, 108, 102, 46, 100, 101,
         115, 99, 114, 105, 112, 116, 105, 111, 110, 32, 61, 32, 34>>,
     \* "    def display_info(self):"
     DefDisplayInfo |->
         <<32, 32, 32, 32, 100, 101, 102, 32, 100, 105, 115, 112, 108, 97, 121,
         95, 105, 110, 102, 111, 40, 115, 101, 108, 102, 41, 58>>,
     \* '        """Display information about this instance."""'
     DisplayInfoDoc |->
         <<32, 32, 32, 32, 32, 32, 32, 32, 34, 34, 34, 68, 105, 115, 112, 108,
         97, 121, 32, 105, 110, 102, 111, 114, 109, 97, 116, 105, 111, 110, 32,
         97, 98, 111, 117, 116, 32, 116, 104, 105, 115, 32, 105, 110, 115, 116,
         97, 110, 99, 101, 46, 34, 34, 34>>,
     \* '        print(f"Description: {self.description}")'
     DisplayInfoBody |->
         <<32, 32, 32, 32, 32, 32, 32, 32, 112, 114, 105, 110, 116, 40, 102,
         34, 68, 101, 115, 99, 114, 105, 112, 116, 105, 111, 110, 58, 32, 123,
         115, 101, 108, 102, 46, 100, 101, 115, 99, 114, 105, 112, 116, 105,
         111, 110, 125, 34, 41>>,
     \* "method_"
     MethodPrefix |->
         <<109, 101, 116, 104, 111, 100, 95>>,
     \* "    def "
     DefMethod |->
         <<32, 32, 32, 32, 100, 101, 102, 32>>,
     \* "(self):"
     DefMethodEnd |->
         <<40, 115, 101, 108, 102, 41, 58>>,
     \* '        """Method '
     MethodDocStart |->
         <<32, 32, 32, 32, 32, 32, 32, 32, 34, 34, 34, 77, 101, 116, 104, 111,
         100, 32>>,
     \* ' generated from user input."""'
     MethodDocEnd |->
         <<32, 103, 101, 110, 101, 114, 97, 116, 101, 100, 32, 102, 114, 111,
         109, 32, 117, 115, 101, 114, 32, 105, 110, 112, 117, 116, 46, 34, 34,
         34>>,
     \* '        print("'
     MethodPrint |->
         <<32, 32, 32, 32, 32, 32, 32, 32, 112, 114, 105, 110, 116, 40, 34>>,
     \* '        return "'
     MethodReturn |->
         <<32, 32, 32, 32, 32, 32, 32, 32, 114, 101, 116, 117, 114, 110, 32,
         34>>,
     \* "    obj = "
     ObjAssign |->
         <<32, 32, 32, 32, 111, 98, 106, 32, 61, 32>>,
     \* "    obj.display_info()"
     ObjDisplayInfo |->
         <<32, 32, 32, 32, 111, 98, 106, 46, 100, 105, 115, 112, 108, 97, 121,
         95, 105, 110, 102, 111, 40, 41>>,
     \* "    obj.method_1()"
     ObjMethod1 |->
         <<32, 32, 32, 32, 111, 98, 106, 46, 109, 101, 116, 104, 111, 100, 95,
         49, 40, 41>>,
     \* "Generated Comment Block - "
     CommentHeading |->
         <<71, 101, 110, 101, 114, 97, 116, 101, 100, 32, 67, 111, 109, 109,
         101, 110, 116, 32, 66, 108, 111, 99, 107, 32, 45, 32>>,
     \* "# This is a comment block generated from your text"
     CommentNote |->
         <<35, 32, 84, 104, 105, 115, 32, 105, 115, 32, 97, 32, 99, 111, 109,
         109, 101, 110, 116, 32, 98, 108, 111, 99, 107, 32, 103, 101, 110, 101,
         114, 97, 116, 101, 100, 32, 102, 114, 111, 109, 32, 121, 111, 117,
         114, 32, 116, 101, 120, 116>>,
     \* "# You can use this as documentation in your Python projects"
     CommentUse |->
         <<35, 32, 89, 111, 117, 32, 99, 97, 110, 32, 117, 115, 101, 32, 116,
         104, 105, 115, 32, 97, 115, 32, 100, 111, 99, 117, 109, 101, 110, 116,
         97, 116, 105, 111, 110, 32, 105, 110, 32, 121, 111, 117, 114, 32, 80,
         121, 116, 104, 111, 110, 32, 112, 114, 111, 106, 101, 99, 116, 115>>,
     \* "GeneratedClass"
     GeneratedClass |->
         <<71, 101, 110, 101, 114, 97, 116, 101, 100, 67, 108, 97, 115, 115>>,
     \* "Generated"
     GeneratedWord |->
         <<71, 101, 110, 101, 114, 97, 116, 101, 100>>]

Quote == 34

Backslash == 92

Space == 32

\* t.strip()
strip(t) ==
    LET kept == {k \in 1..Len(t) : t[k] \notin SpaceChars}
    IN  IF kept = {} THEN <<>>
        ELSE LET first == CHOOSE k \in kept : \A j \in kept : k <= j
                 last == CHOOSE k \in kept : \A j \in kept : k >= j
             IN  SubSeq(t, first, last)

\* the pieces of t between the symbols of seps, the empty pieces left
\* out: t.split() when seps is SpaceChars
Pieces(t, seps) ==
    SelectSeq(split([k \in 1..Len(t) |-> IF t[k] \in seps THEN -1 ELSE t[k]],
                    -1),
              LAMBDA piece : piece # <<>>)

\* t.replace('"', '\\"')
RECURSIVE EscapeQuotes(_)
EscapeQuotes(t) ==
    IF t = <<>> THEN <<>>
    ELSE (IF Head(t) = Quote THEN <<Backslash, Quote>> ELSE <<Head(t)>>)
             \o EscapeQuotes(Tail(t))

\* str(n) for n >= 0
RECURSIVE Decimal(_)
Decimal(n) ==
    IF n < 10 THEN <<48 + n>> ELSE Decimal(n \div 10) \o <<48 + (n % 10)>>

\* f'{t[:n]}{"..." if len(t) > n else ""}'
Shortened(t, n) == Prefix(t, n) \o (IF Len(t) > n THEN Lit.Ellipsis ELSE <<>>)

\* str.capitalize()
capitalize(t) ==
    [k \in 1..Len(t) |-> IF k = 1 THEN UpperChar(t[k]) ELSE LowerChar(t[k])]

\* _split_into_sentences: re.split(r'[.!?]+', text), the blank pieces left
\* out and the others stripped
split_into_sentences(t) ==
    LET pieces == Pieces(t, {46, 33, 63})
        kept == SelectSeq(pieces, LAMBDA piece : ~IsBlank(piece))
    IN  [k \in 1..Len(kept) |-> strip(kept[k])]

\* _create_identifier as one call
create_identifier(t) ==
    LET stripped == StripUnderscores(CollapseUnderscores(
                        LET substituted == SubNonWord(Lower(t))
                        IN  IF substituted # <<>> /\ isdigit(substituted[1])
                            THEN FuncPrefix \o substituted
                            ELSE substituted))
    IN  IF stripped = <<>> \/ Len(stripped) < MinIdentifierLength
        THEN GeneratedItem
        ELSE stripped

IsAlpha(c) == c \in 97..122 \/ c \in 65..90

\* _create_class_name
create_class_name(t) ==
    LET words == Pieces(t, {c \in Range(t) : ~(IsAlpha(c) \/ isdigit(c))})
        first == Prefix(words, 3)
        class_name == join([k \in 1..Len(first) |-> capitalize(first[k])], <<>>)
    IN  IF words = <<>> THEN Lit.GeneratedClass
        ELSE IF class_name = <<>> \/ ~IsAlpha(class_name[1])
        THEN Lit.GeneratedWord \o class_name
        ELSE class_name

\* _create_print_statements
create_print_statements(t) ==
    LET sentences == split_into_sentences(t)
    IN  join(<<Lit.PrintHeading, Lit.CreatedOn \o TimeStamp, <<>>>>
             \o [k \in 1..Len(sentences) |->
                    Lit.PrintStatement \o Decimal(k) \o Lit.ColonSpace
                        \o EscapeQuotes(strip(sentences[k])) \o Lit.CloseCall]
             \o <<<<>>, Lit.PrintFooting>>,
             <<Newline>>)

\* _create_function_definition
create_function_definition(t) ==
    LET words == Prefix(Pieces(t, SpaceChars), 3)
        function_name == create_identifier(join(words, <<Underscore>>))
        sentences == split_into_sentences(t)
    IN  join(<<Lit.FunctionHeading,
               Lit.CreatedOn \o TimeStamp,
               <<>>,
               Lit.Def \o function_name \o Lit.DefEnd,
               Lit.DocQuotes,
               Lit.FunctionDoc,
               Lit.DocTextStart \o Shortened(t, 60) \o <<Quote>>,
               Lit.DocQuotes>>
             \o [k \in 1..Len(sentences) |->
                    Lit.BodyPrint \o EscapeQuotes(strip(sentences[k])) \o Lit.CloseCall]
             \o <<<<>>,
                  <<>>,
                  Lit.ExampleUsage,
                  Lit.IfMain,
                  Lit.Indent \o function_name \o Lit.CallEnd>>,
             <<Newline>>)

\* the lines of the method that _create_class_definition adds for sentence k
MethodLines(k, sentence) ==
    LET method_name == create_identifier(Lit.MethodPrefix \o Decimal(k))
        clean_sentence == EscapeQuotes(strip(sentence))
    IN  <<<<>>,
          Lit.DefMethod \o method_name \o Lit.DefMethodEnd,
          Lit.MethodDocStart \o Decimal(k) \o Lit.MethodDocEnd,
          Lit.MethodPrint \o clean_sentence \o Lit.CloseCall,
          Lit.MethodReturn \o clean_sentence \o <<Quote>>>>

RECURSIVE Flatten(_)
Flatten(lists) ==
    IF lists = <<>> THEN <<>> ELSE Head(lists) \o Flatten(Tail(lists))

\* _create_class_definition; filter(None, code_lines) leaves the empty lines
\* out
create_class_definition(t) ==
    LET words == Prefix(Pieces(t, SpaceChars), 2)
        class_name == create_class_name(join(words, <<Underscore>>))
        sentences == split_into_sentences(t)
        methods == Prefix(sentences, 3)
        code_lines ==
            <<Lit.ClassHeading,
              Lit.CreatedOn \o TimeStamp,
              <<>>,
              Lit.Class \o class_name \o <<58>>,
              Lit.DocQuotes,
              Lit.ClassDoc,
              Lit.DocTextStart \o Shortened(t, 60) \o <<Quote>>,
              Lit.DocQuotes,
              <<>>,
              Lit.DefInit,
              Lit.InitDoc,
              Lit.SelfDescription \o Shortened(t, 50) \o <<Quote>>,
              <<>>,
              Lit.DefDisplayInfo,
              Lit.DisplayInfoDoc,
              Lit.DisplayInfoBody>>
            \o Flatten([k \in 1..Len(methods) |-> MethodLines(k, methods[k])])
            \o <<<<>>,
                 <<>>,
                 Lit.ExampleUsage,
                 Lit.IfMain,
                 Lit.ObjAssign \o class_name \o Lit.CallEnd,
                 Lit.ObjDisplayInfo,
                 IF Len(sentences) > 0 THEN Lit.ObjMethod1 ELSE <<>>>>
    IN  join(SelectSeq(code_lines, LAMBDA line : line # <<>>), <<Newline>>)

max_width == 70

\* the loop of _create_comment_block over the words of a line, and the
\* append after it
RECURSIVE Wrap(_, _)
Wrap(words, current_line) ==
    IF words = <<>>
    THEN IF current_line # <<>> THEN <<current_line>> ELSE <<>>
    ELSE LET word == Head(words)
         IN  IF Len(current_line) + 1 + Len(word) <= max_width
             THEN Wrap(Tail(words),
                       IF current_line # <<>>
                       THEN current_line \o <<Space>> \o word
                       ELSE word)
             ELSE (IF current_line # <<>> THEN <<current_line>> ELSE <<>>)
                      \o Wrap(Tail(words), word)

\* _create_comment_block
create_comment_block(t) ==
    LET text_lines == SelectSeq(split(t, Newline), LAMBDA line : ~IsBlank(line))
    IN  join(<<TripleQuote,
               Lit.CommentHeading \o TimeStamp,
               Repeat(61, max_width),
               <<>>>>
             \o Flatten([k \in 1..Len(text_lines) |->
                    Wrap(Pieces(strip(text_lines[k]), SpaceChars), <<>>) \o <<<<>>>>])
             \o <<Repeat(61, max_width),
                  TripleQuote,
                  <<>>,
                  Lit.CommentNote,
                  Lit.CommentUse>>,
             <<Newline>>)

\* convert_text: the exception it raises or the code it returns
convert_text(t, template_type) ==
    IF template_type \notin 1..4
    THEN [raised |-> "ValueError: Invalid template type", code |-> <<>>]
    ELSE IF IsBlank(t)
    THEN [raised |-> "ValueError: Input text cannot be empty", code |-> <<>>]
    ELSE [raised |-> NoError,
          code |-> CASE template_type = 1 -> create_print_statements(t)
                     [] template_type = 2 -> create_function_definition(t)
                     [] template_type = 3 -> create_class_definition(t)
                     [] template_type = 4 -> create_comment_block(t)]

----------------------------------------------------------------------------
\* TextToCodeApp of main.py.  The session waits at one input() call at a
\* time; a step is the user's answer to it and all the session does until
\* it waits again or ends.  The converter, the cipher and the FileManager
\* are called as functions.

\* "/dev/null"
DevNull ==
    <<47, 100, 101, 118, 47, 110, 117, 108, 108>>

\* "Say hi. Go!"
UserText ==
    <<83, 97, 121, 32, 104, 105, 46, 32, 71, 111, 33>>

\* what input() can give at a prompt: one of the lines ls, end of input
\* (EOFError) or Ctrl-C (KeyboardInterrupt)
Responses(ls) ==
    [kind : {"line"}, line : ls] \cup [kind : {"eof", "interrupt"}, line : {<<>>}]

\* the lines the user types at each prompt
\* "1" .. "9"
MenuLines == {<<c>> : c \in 49..57}

\* "  ", "Say hi. Go!"
TextLines == {<<32, 32>>, UserText}

\* "1", "2", "3", "4", "5", "x"
TemplateLines == {<<49>>, <<50>>, <<51>>, <<52>>, <<53>>, <<120>>}

\* "13", "0", "x"
ShiftLines == {<<49, 51>>, <<48>>, <<120>>}

\* "", "Khoor"
EncryptedLines == {<<>>, <<75, 104, 111, 111, 114>>}

\* "1", "2", "3", "x"
SaveLines == {<<49>>, <<50>>, <<51>>, <<120>>}

\* "", the names save_code gives, "/dev/null"
FilenameLines == {<<>>, FileName(Generated), FileName(Encrypted), DevNull}

\* "y", "Y", ""
ConfirmLines == {<<121>>, <<89>>, <<>>}

\* ""
PauseLines == {<<>>}

RECURSIVE DigitsValue(_)
DigitsValue(ds) ==
    IF ds = <<>> THEN 0
    ELSE 10 * DigitsValue(SubSeq(ds, 1, Len(ds) - 1)) + (ds[Len(ds)] - 48)

\* int(t) for a string of ASCII symbols: decimal digits after an optional
\* sign give their value, any other string raises ValueError
ParseInt(t) ==
    LET stripped == strip(t)
        signed == stripped # <<>> /\ stripped[1] \in {43, 45}
        ds == IF signed THEN Tail(stripped) ELSE stripped
    IN  IF ds = <<>> \/ \E k \in 1..Len(ds) : ~isdigit(ds[k])
        THEN [raised |-> TRUE, value |-> 0]
        ELSE [raised |-> FALSE,
              value |-> IF signed /\ stripped[1] = 45
                        THEN 0 - DigitsValue(ds)
                        ELSE DigitsValue(ds)]

\* the status of a process that ends by an uncaught exception
TracebackStatus == 1

\* the status of a process that ends by an uncaught KeyboardInterrupt
InterruptStatus == 130

\* what a step leaves as it is unless it says otherwise
Keep ==
    [generated_code |-> generated_code,
     encrypted_code |-> encrypted_code,
     disk |-> disk,
     held |-> <<>>,
     cipher_op |-> "none",
     cipher_raised |-> NoError]

\* the session prints msg and waits at prompt p
ToPrompt(p, msg, new) ==
    /\ prompt' = p
    /\ message' = msg
    /\ generated_code' = new.generated_code
    /\ encrypted_code' = new.encrypted_code
    /\ disk' = new.disk
    /\ held' = new.held
    /\ cipher_op' = new.cipher_op
    /\ cipher_raised' = new.cipher_raised
    /\ UNCHANGED <<exited, exit_status>>

\* the process ends
Ends(status, msg) ==
    /\ exited' = TRUE
    /\ exit_status' = status
    /\ prompt' = "none"
    /\ message' = msg
    /\ held' = <<>>
    /\ cipher_op' = "none"
    /\ cipher_raised' = NoError
    /\ UNCHANGED <<generated_code, encrypted_code, disk>>

\* run()'s except KeyboardInterrupt: break, and main() returns
Goodbye == Ends(0, "Goodbye!")

\* run()'s except Exception, which waits at its own input()
Unexpected == ToPrompt("error_pause", "Unexpected error", Keep)

\* a handler returns and run() waits at "Press Enter to continue..."
ToPause(msg, new) == ToPrompt("pause", msg, new)

\* a prompt of a handler that protects it by no try, or by one that
\* catches ValueError only; OnLine is what the handler does with a line
Answered(r, OnLine) ==
    /\ entered' = r.kind
    /\ CASE r.kind = "line" -> OnLine
         [] r.kind = "eof" -> Unexpected
         [] r.kind = "interrupt" -> Goodbye

\* the handlers up to their first prompt
Dispatch(choice) ==
    CASE choice = 1 -> ToPrompt("convert_text", "TEXT TO CODE CONVERSION", Keep)
      [] choice = 2 ->
            IF generated_code = <<>>
            THEN ToPause("No code to encrypt! Please generate code first.", Keep)
            ELSE ToPrompt("encrypt_shift", "CODE ENCRYPTION", Keep)
      [] choice = 3 ->
            IF encrypted_code = <<>>
            THEN ToPrompt("decrypt_input", "No encrypted code in memory.", Keep)
            ELSE ToPrompt("decrypt_shift", "Using encrypted code from memory.",
                          [Keep EXCEPT !.held = encrypted_code])
      [] choice = 4 -> ToPrompt("save_choice", "SAVE CODE TO FILE", Keep)
      [] choice = 5 -> ToPrompt("load_filename", "LOAD AND DECRYPT FROM FILE", Keep)
      [] choice = 6 -> ToPause("CURRENT CODE STATUS", Keep)
      [] choice = 7 -> ToPrompt("clear_confirm", "Are you sure?", Keep)
      [] choice = 8 -> Ends(0, "Thank you for using Text to Code Generator!")

\* get_user_choice and the dispatch in run()
MenuChoice(r) ==
    /\ prompt = "menu"
    /\ entered' = r.kind
    /\ CASE r.kind = "interrupt" -> Ends(0, "Goodbye!")
         [] r.kind = "eof" -> ToPrompt("menu", "Error reading input", Keep)
         [] r.kind = "line" ->
               LET choice == strip(r.line)
               IN  IF choice \in {<<c>> : c \in 49..56}
                   THEN Dispatch(choice[1] - 48)
                   ELSE ToPrompt("menu", "Invalid choice!", Keep)

\* convert_text_to_code at "Enter your text: "
ConvertText(r) ==
    /\ prompt = "convert_text"
    /\ Answered(r, LET l == r.line IN
           IF strip(l) = <<>>
           THEN ToPause("Empty text provided!", Keep)
           ELSE ToPrompt("convert_template", "Available templates:",
                         [Keep EXCEPT !.held = strip(l)]))

\* convert_text_to_code at "Choose template (1-4): "
ConvertTemplate(r) ==
    /\ prompt = "convert_template"
    /\ Answered(r, LET l == r.line IN
           LET template_choice == ParseInt(strip(l))
               converted == convert_text(held, template_choice.value)
           IN  IF template_choice.raised
               THEN ToPause("Please enter a valid number!", Keep)
               ELSE IF template_choice.value \notin {1, 2, 3, 4}
               THEN ToPause("Invalid template choice!", Keep)
               ELSE IF converted.raised # NoError
               THEN ToPause("Error generating code", Keep)
               ELSE ToPause("Code generated successfully!",
                            [Keep EXCEPT !.generated_code = converted.code]))

\* encrypt_code at "Enter Caesar cipher shift value (1-25): "
EncryptShift(r) ==
    /\ prompt = "encrypt_shift"
    /\ Answered(r, LET l == r.line IN
           LET parsed == ParseInt(strip(l))
               encrypted == encrypt(generated_code, parsed.value)
           IN  IF parsed.raised
               THEN ToPause("Please enter a valid number!", Keep)
               ELSE IF ~(1 <= parsed.value /\ parsed.value <= 25)
               THEN ToPause("Shift value must be between 1 and 25!", Keep)
               ELSE IF encrypted.raised # NoError
               THEN ToPause("Error encrypting code",
                            [Keep EXCEPT !.cipher_op = "encrypt",
                                         !.cipher_raised = encrypted.raised])
               ELSE ToPause("Code encrypted successfully!",
                            [Keep EXCEPT !.cipher_op = "encrypt",
                                         !.encrypted_code = encrypted.chars]))

\* decrypt_code at "Encrypted code: "
DecryptInput(r) ==
    /\ prompt = "decrypt_input"
    /\ Answered(r, LET l == r.line IN
           IF strip(l) = <<>>
           THEN ToPause("Empty encrypted code provided!", Keep)
           ELSE ToPrompt("decrypt_shift", "Encrypted code entered",
                         [Keep EXCEPT !.held = strip(l)]))

\* decrypt_code at "Enter Caesar cipher shift value used for encryption: "
DecryptShift(r) ==
    /\ prompt = "decrypt_shift"
    /\ Answered(r, LET l == r.line IN
           LET parsed == ParseInt(strip(l))
               decrypted == decrypt(held, parsed.value)
           IN  IF parsed.raised
               THEN ToPause("Please enter a valid number!", Keep)
               ELSE IF ~(1 <= parsed.value /\ parsed.value <= 25)
               THEN ToPause("Shift value must be between 1 and 25!", Keep)
               ELSE IF decrypted.raised # NoError
               THEN ToPause("Error decrypting code",
                            [Keep EXCEPT !.cipher_op = "decrypt",
                                         !.cipher_raised = decrypted.raised])
               ELSE ToPause("Code decrypted successfully!",
                            [Keep EXCEPT !.cipher_op = "decrypt"]))

\* one branch of save_code_to_file: c is saved with the type given
SaveBranch(c, type, nothing, failed, done) ==
    LET saved == save_code(disk, c, type)
    IN  IF c = <<>> THEN ToPause(nothing, Keep)
        ELSE IF saved.raised # NoError THEN ToPause(failed, Keep)
        ELSE ToPause(done, [Keep EXCEPT !.disk = saved.disk])

\* save_code_to_file at "Choose what to save (1-2): "
SaveChoice(r) ==
    /\ prompt = "save_choice"
    /\ Answered(r, LET l == r.line IN
           LET save_choice == ParseInt(strip(l))
           IN  IF save_choice.raised
               THEN ToPause("Please enter a valid number!", Keep)
               ELSE IF save_choice.value = 1
               THEN SaveBranch(generated_code, Generated,
                               "No generated code to save!",
                               "Error saving generated code",
                               "Generated code saved")
               ELSE IF save_choice.value = 2
               THEN SaveBranch(encrypted_code, Encrypted,
                               "No encrypted code to save!",
                               "Error saving encrypted code",
                               "Encrypted code saved")
               ELSE ToPause("Invalid choice!", Keep))

\* load_and_decrypt_from_file at "Enter filename to load: ", up to the
\* prompt for the shift
LoadFilename(r) ==
    /\ prompt = "load_filename"
    /\ Answered(r, LET l == r.line IN
           LET loaded == load_code(disk, strip(l))
           IN  IF strip(l) = <<>>
               THEN ToPause("Empty filename provided!", Keep)
               ELSE IF loaded.raised = FileNotFound
               THEN ToPause("File not found!", Keep)
               ELSE IF loaded.raised # NoError
               THEN ToPause("Please enter a valid shift number!", Keep)
               ELSE ToPrompt("load_shift", "File loaded successfully!",
                             [Keep EXCEPT !.held = loaded.content]))

\* the call of decrypt in load_and_decrypt_from_file with the exception it
\* raised going on to run()
AfterLoadDecryptUncaught(decrypted) ==
    IF decrypted.raised # NoError
    THEN ToPrompt("error_pause", "Unexpected error",
                  [Keep EXCEPT !.cipher_op = "decrypt",
                               !.cipher_raised = decrypted.raised])
    ELSE ToPause("Code decrypted successfully!",
                 [Keep EXCEPT !.cipher_op = "decrypt"])

\* the call of decrypt in load_and_decrypt_from_file: its ValueError is
\* caught by the except ValueError of the handler
AfterLoadDecrypt(decrypted) ==
    IF decrypted.raised # NoError
    THEN ToPause("Please enter a valid shift number!",
                 [Keep EXCEPT !.cipher_op = "decrypt",
                              !.cipher_raised = decrypted.raised])
    ELSE ToPause("Code decrypted successfully!",
                 [Keep EXCEPT !.cipher_op = "decrypt"])

\* load_and_decrypt_from_file at "Enter Caesar cipher shift value: ", inside
\* the try whose except clauses catch every Exception
LoadShift(r) ==
    /\ prompt = "load_shift"
    /\ entered' = r.kind
    /\ CASE r.kind = "interrupt" -> Goodbye
         [] r.kind = "eof" -> ToPause("Error loading/decrypting file", Keep)
         [] r.kind = "line" ->
               LET parsed == ParseInt(strip(r.line))
               IN  IF parsed.raised
                   THEN ToPause("Please enter a valid shift number!", Keep)
                   ELSE IF ~(1 <= parsed.value /\ parsed.value <= 25)
                   THEN ToPause("Shift value must be between 1 and 25!", Keep)
                   ELSE AfterLoadDecrypt(decrypt(held, parsed.value))

\* clear_all_data
ClearConfirm(r) ==
    /\ prompt = "clear_confirm"
    /\ Answered(r, LET l == r.line IN
           IF Lower(strip(l)) = <<121>>
           THEN ToPause("All data cleared!",
                        [Keep EXCEPT !.generated_code = <<>>,
                                     !.encrypted_code = <<>>])
           ELSE ToPause("Operation cancelled.", Keep))

\* run() at "Press Enter to continue...", inside its try
Pause(r) ==
    /\ prompt = "pause"
    /\ Answered(r, LET l == r.line IN ToPrompt("menu", "Enter your choice (1-8): ", Keep))

\* run() at the "Press Enter to continue..." of its except Exception, which
\* no try protects
ErrorPause(r) ==
    /\ prompt = "error_pause"
    /\ entered' = r.kind
    /\ CASE r.kind = "line" -> ToPrompt("menu", "Enter your choice (1-8): ", Keep)
         [] r.kind = "eof" -> Ends(TracebackStatus, "Traceback: EOFError")
         [] r.kind = "interrupt" ->
               Ends(InterruptStatus, "Traceback: KeyboardInterrupt")

----------------------------------------------------------------------------
\* The state after CaesarCipher(), the client holding one of the texts
InitCipher(texts) ==
    /\ input \in texts
    /\ charset = InitialCharset
    /\ pc = "idle"
    /\ op = "none"
    /\ text = <<>>
    /\ shift = 0
    /\ value = NoValue
    /\ i = 0
    /\ out = <<>>
    /\ result = <<>>
    /\ returned = FALSE
    /\ raised = NoError
    /\ results = NoDict
    /\ analysis = NoDict
    /\ valid = FALSE
    /\ src = NoSrc
    /\ suggestions = <<>>

\* no call of _create_identifier made yet
InitIdent ==
    /\ id_text = <<>>
    /\ identifier = <<>>
    /\ id_pc = "idle"

\* a step of the cipher and its client, which leaves all else alone
CipherOnly(A) == A /\ UNCHANGED <<identVars, fileVars, sessionVars>>

\* a step inside _create_identifier
IdentOnly(A) == A /\ UNCHANGED <<cipherVars, fileVars, sessionVars>>

\* a step of the FileManager
FileOnly(A) == A /\ UNCHANGED <<cipherVars, identVars, sessionVars>>

\* a step of the session
SessionOnly(A) == A /\ UNCHANGED <<cipherVars, identVars, fileLocals>>

\* no call of the FileManager made yet
InitFileLocals ==
    /\ fm_pc = "idle"
    /\ fm_op = "none"
    /\ code = <<>>
    /\ code_type = <<>>
    /\ code_src = NoSrc
    /\ filename = <<>>
    /\ lines = <<>>
    /\ content = <<>>
    /\ fm_raised = NoError

\* the state after FileManager(): a directory without files
InitFiles ==
    /\ disk = <<>>
    /\ InitFileLocals

\* the state after TextToCodeApp(), run() waiting at the menu
InitSession ==
    /\ generated_code = <<>>
    /\ encrypted_code = <<>>
    /\ prompt = "menu"
    /\ held = <<>>
    /\ entered = "none"
    /\ message = "Welcome to Text to Code Generator with Encryption!"
    /\ cipher_op = "none"
    /\ cipher_raised = NoError
    /\ exited = FALSE
    /\ exit_status = 0

Init == InitCipher(Texts) /\ InitIdent /\ InitFiles /\ InitSession

Next ==
    \/ CipherOnly(\E s \in ShiftInputs : EncryptCall(input, s))
    \/ CipherOnly(EncryptStep)
    \/ CipherOnly(EncryptReturn)
    \/ CipherOnly(\E s \in ShiftInputs : DecryptCall(input, s, NoSrc))
    \/ CipherOnly(\E s \in ShiftInputs :
           CanChain /\ DecryptCall(result, s, [text |-> text, shift |-> shift]))
    \/ CipherOnly(DecryptStep)
    \/ CipherOnly(DecryptReturn)
    \/ CipherOnly(BruteCall(input, NoSrc))
    \/ CipherOnly(CanChain /\ BruteCall(result, [text |-> text, shift |-> shift]))
    \/ CipherOnly(BruteStep)
    \/ CipherOnly(BruteReturn)
    \/ CipherOnly(AnalyzeCall(input))
    \/ CipherOnly(AnalyzeStep)
    \/ CipherOnly(AnalyzeReturn)
    \/ CipherOnly(\E v \in PyValues : ValidateShift(v))
    \/ CipherOnly(SuggestCall(input))
    \/ CipherOnly(SuggestStep)
    \/ CipherOnly(SuggestReturn)

Spec == Init /\ [][Next]_vars

\* generate_shift_suggestions alone, on samples of Python text
SuggestInit == InitCipher(Samples) /\ InitIdent /\ InitFiles /\ InitSession

SuggestNext ==
    \/ CipherOnly(SuggestCall(input))
    \/ CipherOnly(SuggestStep)
    \/ CipherOnly(SuggestReturn)

SuggestSpec == SuggestInit /\ [][SuggestNext]_vars

\* _create_identifier alone, called once on each text
IdentInit == InitCipher({<<>>}) /\ InitIdent /\ InitFiles /\ InitSession

IdentNext ==
    \/ \E t \in IdTexts : IdentOnly(CreateIdentifierCall(t))
    \/ IdentOnly(EnsureFirst)
    \/ IdentOnly(Collapse)
    \/ IdentOnly(Strip)
    \/ IdentOnly(CreateIdentifierReturn)

IdentSpec == IdentInit /\ [][IdentNext]_vars

\* A client of the cipher and the FileManager.  It may save its text, may
\* encrypt it and save the ciphertext, then loads a file and decrypts what it
\* loaded: one call at a time, each call once
FileInit == InitCipher(FileTexts) /\ InitIdent /\ InitFiles /\ InitSession

FileNext ==
    \/ CipherOnly(\E s \in ShiftInputs :
           /\ op = "none"
           /\ fm_pc = "idle"
           /\ fm_op # "load_code"
           /\ EncryptCall(input, s))
    \/ CipherOnly(EncryptStep)
    \/ CipherOnly(EncryptReturn)
    \/ FileOnly(/\ pc = "idle"
                /\ op = "none"
                /\ fm_op = "none"
                /\ SaveCode(input, Generated, NoSrc))
    \/ FileOnly(/\ CanChain
                /\ fm_op # "load_code"
                /\ code_type # Encrypted
                /\ SaveCode(result, Encrypted, [text |-> text, shift |-> shift]))
    \/ FileOnly(\E f \in {<<>>, FileName(Generated), FileName(Encrypted)} :
           /\ pc = "idle"
           /\ fm_op = "save_code"
           /\ LoadCode(f))
    \/ FileOnly(LoadRemoveHeader)
    \/ FileOnly(LoadRemoveFooter)
    \/ FileOnly(LoadDropBlankEnds)
    \/ FileOnly(LoadReturn)
    \/ CipherOnly(\E s \in ShiftInputs :
           /\ Loaded
           /\ op = "encrypt"
           /\ DecryptCall(content, s, NoSrc))
    \/ CipherOnly(DecryptStep)
    \/ CipherOnly(DecryptReturn)

FileSpec == FileInit /\ [][FileNext]_vars

\* The session: the directory holds no saved file yet, and the user can
\* name the empty file /dev/null
SessionInit ==
    /\ InitCipher({<<>>})
    /\ InitIdent
    /\ InitFileLocals
    /\ disk = [f \in {DevNull} |-> <<>>]
    /\ InitSession

SessionNext ==
    \/ \E r \in Responses(MenuLines) : SessionOnly(MenuChoice(r))
    \/ \E r \in Responses(TextLines) : SessionOnly(ConvertText(r))
    \/ \E r \in Responses(TemplateLines) : SessionOnly(ConvertTemplate(r))
    \/ \E r \in Responses(ShiftLines) : SessionOnly(EncryptShift(r))
    \/ \E r \in Responses(EncryptedLines) : SessionOnly(DecryptInput(r))
    \/ \E r \in Responses(ShiftLines) : SessionOnly(DecryptShift(r))
    \/ \E r \in Responses(SaveLines) : SessionOnly(SaveChoice(r))
    \/ \E r \in Responses(FilenameLines) : SessionOnly(LoadFilename(r))
    \/ \E r \in Responses(ShiftLines) : SessionOnly(LoadShift(r))
    \/ \E r \in Responses(ConfirmLines) : SessionOnly(ClearConfirm(r))
    \/ \E r \in Responses(PauseLines) : SessionOnly(Pause(r))
    \/ \E r \in Responses(PauseLines) : SessionOnly(ErrorPause(r))

SessionSpec == SessionInit /\ [][SessionNext]_vars

----------------------------------------------------------------------------
\* What the formulas below use: the cipher's alphabet as the claims speak of
\* it, and counts over a text

L == Len(charset)

\* the positions 0..L-1 at which the alphabet holds symbol c
PositionsOf(c) == {p \in 0..(L - 1) : charset[p + 1] = c}

\* the position s places after p, and s places before p, around the alphabet
Advanced(p, s) == IF p + s < L THEN p + s ELSE p + s - L
Retreated(p, s) == IF p - s >= 0 THEN p - s ELSE p - s + L

ValidShifts == 1..25

Occurrences(t, c) == Cardinality({k \in 1..Len(t) : t[k] = c})
FirstOccurrence(t, c) ==
    CHOOSE k \in 1..Len(t) : t[k] = c /\ \A j \in 1..(k - 1) : t[j] # c

\* an encrypt, decrypt or analyze call that has ended
Ended(o) == pc = "idle" /\ op = o

----------------------------------------------------------------------------
\* C1: decrypting the output of encrypt(t, s) with the same shift s returns
\* exactly t, for every non-empty t and every s in 1..25.
RoundTrip ==
    (Ended("decrypt") /\ src # NoSrc /\ shift = src.shift)
        => /\ returned
           /\ result = src.text

\* a round trip of a text with a symbol that wraps around the alphabet on
\* encrypt (TAB, the last one), one that wraps on decrypt ('a' is encrypted
\* to 'z'), and a pass-through symbol
RoundTripWitness ==
    /\ Ended("decrypt")
    /\ returned
    /\ src = [text |-> <<9, 233, 97>>, shift |-> 25]
    /\ text = <<121, 233, 122>>
    /\ shift = 25
    /\ result = <<9, 233, 97>>

\* C2: encrypt(t, s) with s in 1..25 and t non-empty returns a text of the
\* length of t whose symbol at each place is the alphabet symbol s positions
\* after t's symbol, wrapping around, or t's symbol itself when that is not
\* in the alphabet.
EncryptPositionwise ==
    (Ended("encrypt") /\ shift \in ValidShifts /\ text # <<>>)
        => /\ returned
           /\ Len(result) = Len(text)
           /\ \A k \in 1..Len(text) :
                  IF PositionsOf(text[k]) = {}
                  THEN result[k] = text[k]
                  ELSE \A p \in PositionsOf(text[k]) :
                           result[k] = charset[Advanced(p, shift) + 1]

\* encrypt("\téa", 25) = "yéz": TAB wraps around, U+00E9 passes
EncryptWitness ==
    /\ Ended("encrypt")
    /\ returned
    /\ text = <<9, 233, 97>>
    /\ shift = 25
    /\ result = <<121, 233, 122>>

\* C3: decrypt(t, s) with s in 1..25 and t non-empty returns a text of the
\* length of t whose symbol at each place is the alphabet symbol s positions
\* before t's symbol, the position taken in 0..L-1 also when p - s is
\* negative, or t's symbol itself when that is not in the alphabet.
DecryptPositionwise ==
    (Ended("decrypt") /\ shift \in ValidShifts /\ text # <<>>)
        => /\ returned
           /\ Len(result) = Len(text)
           /\ \A k \in 1..Len(text) :
                  IF PositionsOf(text[k]) = {}
                  THEN result[k] = text[k]
                  ELSE \A p \in PositionsOf(text[k]) :
                           /\ Retreated(p, shift) \in 0..(L - 1)
                           /\ DecryptIndex(p, shift) = Retreated(p, shift)
                           /\ result[k] = charset[Retreated(p, shift) + 1]

\* decrypt("aé\t", 25) = "+é*": for 'a', p - s = -25
DecryptWitness ==
    /\ Ended("decrypt")
    /\ returned
    /\ src = NoSrc
    /\ text = <<97, 233, 9>>
    /\ shift = 25
    /\ result = <<43, 233, 42>>

\* C4: encrypt and decrypt called with a shift outside 1..25 raise the
\* invalid-shift error, whatever the text, return nothing and have
\* transformed no symbol.
InvalidShiftRejected ==
    (op \in {"encrypt", "decrypt"} /\ shift \notin ValidShifts)
        => /\ pc = "idle"
           /\ raised = ShiftError
           /\ ~returned
           /\ result = <<>>
           /\ out = <<>>
           /\ i = 0

\* decrypt of a text of the greatest length with shift 26
InvalidShiftWitness ==
    /\ op = "decrypt"
    /\ shift = 26
    /\ Len(text) = MaxLen
    /\ raised = ShiftError

\* C5: encrypt("", s) and decrypt("", s) with s in 1..25, and
\* brute_force_decrypt(""), raise the empty-input error and produce no
\* output, brute_force_decrypt no result mapping.
EmptyRejected ==
    /\ (op \in {"encrypt", "decrypt"} /\ shift \in ValidShifts /\ text = <<>>)
           => /\ pc = "idle"
              /\ raised = (IF op = "encrypt" THEN EmptyTextError
                           ELSE EmptyEncryptedError)
              /\ ~returned
              /\ result = <<>>
              /\ out = <<>>
    /\ (op = "brute_force_decrypt" /\ text = <<>>)
           => /\ pc = "idle"
              /\ raised = EmptyEncryptedError
              /\ ~returned
              /\ DOMAIN results = {}

EmptyRejectedWitness ==
    /\ op = "brute_force_decrypt"
    /\ text = <<>>
    /\ raised = EmptyEncryptedError

\* C6: for a non-empty ciphertext c, brute_force_decrypt(c) returns a
\* mapping with exactly the keys 1..25 whose value at each key s is what
\* decrypt(c, s) returns, none an error marker; when c is the output of
\* encrypt(t, s0), the value at s0 is t.
BruteForceComplete ==
    (Ended("brute_force_decrypt") /\ text # <<>>)
        => /\ returned
           /\ raised = NoError
           /\ DOMAIN results = ValidShifts
           /\ \A s \in ValidShifts :
                  /\ results[s].kind = "text"
                  /\ decrypt(text, s).raised = NoError
                  /\ results[s].chars = decrypt(text, s).chars
                  /\ Len(results[s].chars) = Len(text)
           /\ src # NoSrc => results[src.shift].chars = src.text

\* brute force on encrypt("\téa", 25): the entry at 25, the last key, is
\* the plaintext
BruteForceWitness ==
    /\ Ended("brute_force_decrypt")
    /\ returned
    /\ src = [text |-> <<9, 233, 97>>, shift |-> 25]
    /\ text = <<121, 233, 122>>
    /\ results[25].chars = <<9, 233, 97>>
    /\ results[1].chars = <<120, 233, 121>>

\* C7: for a non-empty text, the most-common symbol reported occurs in the
\* text, its reported count is its number of occurrences, no symbol occurs
\* more often, and every symbol occurring as often occurs first no earlier
\* than it.
MostCommonIsFirstMax ==
    (Ended("analyze_encrypted_text") /\ text # <<>>)
        => /\ returned
           /\ DOMAIN analysis.most_common_char = {"char", "count", "percentage"}
           /\ LET mc == analysis.most_common_char
              IN  /\ mc.char \in Range(text)
                  /\ mc.count = Occurrences(text, mc.char)
                  /\ \A c \in Range(text) :
                         /\ Occurrences(text, c) <= mc.count
                         /\ Occurrences(text, c) = mc.count
                                => FirstOccurrence(text, mc.char)
                                       <= FirstOccurrence(text, c)

\* "aabb" with TAB for 'b': both symbols occur twice, 'a' comes first
MostCommonWitness ==
    /\ Ended("analyze_encrypted_text")
    /\ returned
    /\ text = <<97, 97, 9, 9>>
    /\ analysis.most_common_char.char = 97
    /\ analysis.most_common_char.count = 2

\* C8: validate_shift(value) returns true exactly when value is an integer
\* in 1..25, false for a value of any other kind (a boolean among them),
\* and never raises.
ValidateShiftIffIntegerInRange ==
    Ended("validate_shift")
        => /\ raised = NoError
           /\ returned
           /\ valid <=> (value.ty = "int" /\ value.den = 1
                             /\ value.num \in ValidShifts)

\* C9: analyze_encrypted_text never raises; for the empty text it returns a
\* result holding the 'error' marker alone, for a non-empty text the full
\* analysis; the text the client passed is the text it still holds.
AnalyzeNeverRaises ==
    op = "analyze_encrypted_text"
        => /\ raised = NoError
           /\ text = input
           /\ pc = "idle"
                  => /\ returned
                     /\ text = <<>> => /\ DOMAIN analysis = {"error"}
                                       /\ analysis.error = "Empty text provided"
                     /\ text # <<>>
                            => /\ DOMAIN analysis =
                                      {"length", "unique_chars",
                                       "char_frequency", "most_common_char",
                                       "printable_chars", "non_printable_chars"}
                               /\ DOMAIN analysis.most_common_char # {}

\* the analysis of the empty text
AnalyzeEmptyWitness ==
    /\ Ended("analyze_encrypted_text")
    /\ returned
    /\ text = <<>>
    /\ analysis = EmptyAnalysis

\* the symbol classes of C10, by code point
IsDigit(c) == c \in 48..57
IsLetter(c) == c \in (65..90) \cup (97..122)
IsPunctuation(c) == c \in (33..47) \cup (58..64) \cup (91..96) \cup (123..126)
IsWhitespace(c) == c \in {32, 9, 10, 13, 11, 12}

RECURSIVE SumCounts(_)
SumCounts(d) == IF d = <<>> THEN 0 ELSE Head(d).count + SumCounts(Tail(d))

\* C10: for a non-empty text t the analysis reports length = len(t),
\* unique_chars = the number of distinct symbols of t, char_frequency with
\* exactly the symbols of t as keys, each with its number of occurrences
\* (summing to len(t)), and printable_chars + non_printable_chars = len(t),
\* printable_chars counting the places holding an (ASCII) digit, letter,
\* punctuation symbol or whitespace symbol, in the cipher alphabet or not.
AnalysisCounts ==
    (Ended("analyze_encrypted_text") /\ text # <<>>)
        => LET freq == analysis.char_frequency
           IN  /\ analysis.length = Len(text)
               /\ analysis.unique_chars = Cardinality(Range(text))
               /\ {freq[k].char : k \in 1..Len(freq)} = Range(text)
               /\ Len(freq) = Cardinality(Range(text))
               /\ \A k \in 1..Len(freq) :
                      freq[k].count = Occurrences(text, freq[k].char)
               /\ SumCounts(freq) = Len(text)
               /\ analysis.printable_chars + analysis.non_printable_chars
                      = Len(text)
               /\ analysis.printable_chars =
                      Cardinality({k \in 1..Len(text) :
                          \/ IsDigit(text[k])
                          \/ IsLetter(text[k])
                          \/ IsPunctuation(text[k])
                          \/ IsWhitespace(text[k])})

\* "\réa\r": CR is printable and not in the cipher alphabet, U+00E9 is not
\* printable
AnalysisCountsWitness ==
    /\ Ended("analyze_encrypted_text")
    /\ returned
    /\ text = <<13, 233, 97, 13>>
    /\ analysis.unique_chars = 3
    /\ analysis.char_frequency =
           <<[char |-> 13, count |-> 2], [char |-> 233, count |-> 1],
             [char |-> 97, count |-> 1]>>
    /\ analysis.printable_chars = 3
    /\ analysis.non_printable_chars = 1

----------------------------------------------------------------------------
\* What the formulas on generate_shift_suggestions use

\* pattern p occurs in sample t when case is ignored
OccursIgnoringCase(t, p) ==
    \E k \in 0..(Len(t) - Len(p)) :
        \A j \in 1..Len(p) : LowerChar(t[k + j]) = LowerChar(p[j])

\* the shifts of the patterns that occur in sample t
MatchedShifts(t) ==
    {common_patterns[n].suggested_shift : n \in
        {m \in 1..Len(common_patterns) :
            OccursIgnoringCase(t, common_patterns[m].pattern)}}

\* C11: for a non-empty sample the suggestions returned are strictly
\* ascending, at most 5, each in 1..25; the shift of every pattern that
\* occurs in the sample, case ignored, is among them; when no pattern
\* occurs they are the first 5 of the fallback list, [1, 3, 5, 7, 13].
SuggestionsForSample ==
    (Ended("generate_shift_suggestions") /\ text # <<>>)
        => /\ returned
           /\ Len(suggestions) <= 5
           /\ \A k \in 1..Len(suggestions) : suggestions[k] \in ValidShifts
           /\ \A k \in 1..(Len(suggestions) - 1) :
                  suggestions[k] < suggestions[k + 1]
           /\ MatchedShifts(text) \subseteq Range(suggestions)
           /\ MatchedShifts(text) = {} => suggestions = <<1, 3, 5, 7, 13>>

\* "Import PRINT(": both patterns occur in another case than the table's
SuggestionsWitness ==
    /\ Ended("generate_shift_suggestions")
    /\ returned
    /\ text = <<73, 109, 112, 111, 114, 116, 32, 80, 82, 73, 78, 84, 40>>
    /\ suggestions = <<7, 11>>

\* C12: for the empty sample the suggestions are [1, 3, 5, 13]; no pattern
\* is looked for and the fallback list is not used.
SuggestionsForEmpty ==
    (op = "generate_shift_suggestions" /\ text = <<>>)
        => /\ pc = "idle"
           /\ returned
           /\ suggestions = <<1, 3, 5, 13>>
           /\ i = 0

SuggestionsForEmptyWitness ==
    /\ Ended("generate_shift_suggestions")
    /\ text = <<>>
    /\ returned
    /\ suggestions = DefaultSuggestions

\* the symbol k positions after c (before it, for k < 0) in the alphabet as
\* CaesarCipher() builds it, or c when the alphabet does not hold it
FreshShifted(c, k) ==
    LET alphabet == InitialCharset
        at == {p \in 1..Len(alphabet) : alphabet[p] = c}
    IN  IF at = {} THEN c
        ELSE alphabet[(((CHOOSE p \in at : TRUE) - 1 + k) % Len(alphabet)) + 1]

\* C13: in every state the alphabet is the sequence built at construction
\* and holds every symbol once; what encrypt and decrypt return after any
\* other calls is what a newly built cipher returns for the same arguments.
AlphabetFixed ==
    /\ charset = InitialCharset
    /\ Cardinality(Range(charset)) = Len(charset)
    /\ (Ended("encrypt") /\ returned)
           => result = [k \in 1..Len(text) |-> FreshShifted(text[k], shift)]
    /\ (Ended("decrypt") /\ returned)
           => result = [k \in 1..Len(text) |-> FreshShifted(text[k], -shift)]
    /\ op \in {"encrypt", "decrypt"}
           => (raised = NoError <=> (shift \in ValidShifts /\ text # <<>>))

\* a decrypt that returned after an encrypt had been called
AlphabetFixedWitness ==
    /\ Ended("decrypt")
    /\ returned
    /\ src # NoSrc
    /\ shift # src.shift
    /\ charset = InitialCharset

\* C19: when c = encrypt(t, s) and t holds a symbol of the alphabet, the
\* entry of brute_force_decrypt(c) at key k is t exactly when k = s, and no
\* two of the 25 entries are the same text.
UniqueRecovery ==
    (/\ Ended("brute_force_decrypt")
     /\ returned
     /\ src # NoSrc
     /\ \E k \in 1..Len(src.text) : PositionsOf(src.text[k]) # {})
        => /\ \A k \in ValidShifts :
                  results[k].chars = src.text <=> k = src.shift
           /\ \A j, k \in ValidShifts :
                  j # k => results[j].chars # results[k].chars

\* brute force on encrypt("é\t", 13): one symbol of the alphabet
UniqueRecoveryWitness ==
    /\ Ended("brute_force_decrypt")
    /\ returned
    /\ src = [text |-> <<233, 9>>, shift |-> 13]
    /\ results[13].chars = <<233, 9>>
    /\ results[12].chars # <<233, 9>>

\* Python keywords the symbols of IdTexts spell: "for", "or"
Keywords == {<<102, 111, 114>>, <<111, 114>>}

\* C17: what _create_identifier returns is a valid Python identifier: it is
\* not empty, holds only letters, digits and underscores, does not start
\* with a digit, and can name a function (it is no keyword).
IdentifierValid ==
    id_pc = "returned"
        => /\ identifier # <<>>
           /\ \A k \in 1..Len(identifier) : IsWordChar(identifier[k])
           /\ ~isdigit(identifier[1])
           /\ identifier \notin Keywords

\* C16: load_code on the file save_code wrote for a payload that is not
\* blank returns that payload, so that decrypting with shift s what was
\* loaded from the saved encrypt(t, s) gives t.
FramingRoundTrip ==
    /\ (Loaded /\ filename = FileName(code_type) /\ ~IsBlank(code))
           => content = code
    /\ (/\ Ended("decrypt")
        /\ returned
        /\ Loaded
        /\ text = content
        /\ filename = FileName(Encrypted)
        /\ code_type = Encrypted
        /\ ~IsBlank(code)
        /\ shift = code_src.shift)
           => result = code_src.text

\* what a handler prints when a call of the cipher raised
CipherErrorMessages ==
    {"Error encrypting code", "Error decrypting code",
     "Please enter a valid shift number!"}

\* C14: a step of the session in which a call of the cipher raises ends at
\* "Press Enter to continue..." with a message printed, the process running
\* and generated_code and encrypted_code as they were; from there a line
\* from the user leads to the menu.
CipherErrorsCaught ==
    [][/\ cipher_raised' # NoError
           => /\ ~exited'
              /\ prompt' = "pause"
              /\ message' \in CipherErrorMessages
              /\ generated_code' = generated_code
              /\ encrypted_code' = encrypted_code
       /\ (cipher_raised # NoError /\ entered' = "line")
           => /\ ~exited'
              /\ prompt' = "menu"
              /\ generated_code' = generated_code
              /\ encrypted_code' = encrypted_code]_vars

\* decrypt raised on the empty content of a loaded file, code is in memory
CipherErrorWitness ==
    /\ prompt = "pause"
    /\ cipher_op = "decrypt"
    /\ cipher_raised = EmptyEncryptedError
    /\ message = "Please enter a valid shift number!"
    /\ encrypted_code # <<>>
    /\ ~exited

\* C15: a process that has ended has ended with status 0.
ExitStatusZero == exited => exit_status = 0

\* C18: encrypted_code, when not empty, is encrypt(generated_code, s) for
\* some s in 1..25, and it is empty whenever generated_code is.
CiphertextMatchesCode ==
    /\ encrypted_code # <<>>
           => \E s \in ValidShifts :
                  /\ Len(encrypted_code) = Len(generated_code)
                  /\ \A k \in 1..Len(generated_code) :
                         encrypted_code[k] = EncryptChar(generated_code[k], s)
    /\ generated_code = <<>> => encrypted_code = <<>>

====
